---- MODULE Spec2Model ----
(***************************************************************************)
(* Model of `yarn workspaces focus`                                        *)
(* (packages/plugin-workspace-tools/sources/commands/focus.ts).            *)
(*                                                                         *)
(* A run of WorkspacesFocus.execute() goes through: schema validation,     *)
(* seed selection, the closure loop over requiredWorkspaces, the manifest  *)
(* pruning pass, the removal pass, install, and the persistence of the     *)
(* install state.  Loops are modelled one iteration per step so that the   *)
(* intermediate states of the project are visible.                         *)
(***************************************************************************)
EXTENDS Integers, Sequences, FiniteSets, TLC

\* ------------------------------------------------------------------ bounds
\* Total number of manifest entries (over all workspaces and scopes) of the
\* loaded project.
MaxEntries == 2
\* Largest number of workspace names given on the command line.
MaxNames == 1

\* ------------------------------------------------------- the loaded project
\* Names of the workspaces of the project, the root first (project.workspaces
\* as the loader leaves it).
LoadedWorkspaces == <<"root", "a", "b">>

\* A package name that is no workspace of the project.
ExternalName == "ext"

Range(s) == {s[k] : k \in 1..Len(s)}

Workspaces == Range(LoadedWorkspaces)

PackageNames == Workspaces \cup {ExternalName}

\* structUtils.parseIdent(name): the ident a package name denotes; idents are
\* compared through their identHash.
parseIdent(name) == <<"ident", name>>

\* workspace.locator.identHash and workspace.cwd of a workspace.
identHash(w) == <<"ident", w>>
cwd(w) == <<"cwd", w>>

Idents == {parseIdent(n) : n \in PackageNames}

\* project.topLevelWorkspace
topLevelWorkspace == LoadedWorkspaces[1]

Scopes == {"dependencies", "devDependencies", "peerDependencies"}

\* Manifest.hardDependencies
hardDependencies == <<"dependencies", "devDependencies">>

null == "null"

\* The subsets of S of at most k elements.
RECURSIVE AtMost(_, _)
AtMost(S, k) ==
  IF k = 0 THEN {{}}
  ELSE LET prev == AtMost(S, k - 1)
       IN  prev \cup {T \cup {e} : T \in prev, e \in S}

\* One manifest entry: <<workspace, scope, ident of the descriptor>>.
EntrySpace == Workspaces \X Scopes \X Idents

ManifestsOf(E) ==
  [w \in Workspaces |->
    [s \in Scopes |-> {e[3] : e \in {x \in E : x[1] = w /\ x[2] = s}}]]

\* Sequences over S of length at most n.
SeqsUpTo(S, n) == UNION {[1..k -> S] : k \in 0..n}

VARIABLES
  pc,                  \* position of execute()
  names,               \* this.workspaces, the names given on the command line
  all,                 \* this.all
  production,          \* this.production
  loaded,              \* the manifests as loaded (never changed)
  manifest,            \* workspace.manifest of every workspace, per scope
  workspaces,          \* project.workspaces (ordered list)
  workspacesByCwd,     \* project.workspacesByCwd
  workspacesByIdent,   \* project.workspacesByIdent
  seed,                \* requiredWorkspaces as constructed, before the loop
  requiredWorkspaces,  \* the Set, in insertion order
  cursor,              \* position of the for-of loop running
  scanned,             \* the workspaces the closure loop has visited, in order
  evictions,           \* the evictions array
  installCalls,        \* persistProject flag of every project.install call
  installResult,       \* "none", "ok" or "failed"
  installError,        \* the error project.install failed with, or "none"
  persistInstallCalls, \* calls of project.persistInstallStateFile
  persistProjectCalls, \* writes of the project state (manifests, lockfile)
  failure,             \* error the operation ended with, or "none"
  exitCode             \* value returned by execute(), -1 while none

vars == <<pc, names, all, production, loaded, manifest, workspaces,
          workspacesByCwd, workspacesByIdent, seed, requiredWorkspaces,
          cursor, scanned, evictions, installCalls, installResult, installError,
          persistInstallCalls, persistProjectCalls, failure, exitCode>>

projectVars == <<manifest, workspaces, workspacesByCwd, workspacesByIdent>>
installVars == <<installCalls, installResult, installError,
                 persistInstallCalls, persistProjectCalls>>

\* ------------------------------------------------------------ project model
\* project.tryWorkspaceByIdent / getWorkspaceByIdent look the ident up in
\* workspacesByIdent.
tryWorkspaceByIdent(byIdent, ident) ==
  IF ident \in DOMAIN byIdent THEN byIdent[ident] ELSE null

\* project.tryWorkspaceByDescriptor(descriptor): the in-project workspace the
\* descriptor's ident resolves to, or null for an external package.
tryWorkspaceByDescriptor(byIdent, descriptor) ==
  tryWorkspaceByIdent(byIdent, descriptor)

Init ==
  /\ pc = "start"
  /\ names = <<>>
  /\ all = FALSE
  /\ production = FALSE
  /\ \E E \in AtMost(EntrySpace, MaxEntries) :
       /\ loaded = ManifestsOf(E)
       /\ manifest = ManifestsOf(E)
  /\ workspaces = LoadedWorkspaces
  /\ workspacesByCwd = [c \in {cwd(w) : w \in Workspaces} |-> c[2]]
  /\ workspacesByIdent = [h \in {identHash(w) : w \in Workspaces} |-> h[2]]
  /\ seed = <<>>
  /\ requiredWorkspaces = <<>>
  /\ cursor = 0
  /\ scanned = <<>>
  /\ evictions = <<>>
  /\ installCalls = <<>>
  /\ installResult = "none"
  /\ installError = "none"
  /\ persistInstallCalls = 0
  /\ persistProjectCalls = 0
  /\ failure = "none"
  /\ exitCode = -1

\* ------------------------------------------------------------ pure helpers
\* new Set(array): the elements in order of first occurrence.
RECURSIVE SetOf(_)
SetOf(arr) ==
  IF arr = <<>> THEN <<>>
  ELSE LET front == SetOf(SubSeq(arr, 1, Len(arr) - 1))
           x == arr[Len(arr)]
       IN  IF x \in Range(front) THEN front ELSE Append(front, x)

\* Variant: an array push, which appends whether present or not.
SetAddAlways(set, x) == Append(set, x)

\* Set.prototype.add: appended at the end unless already present.
SetAdd(set, x) == IF x \in Range(set) THEN set ELSE Append(set, x)

\* Set.prototype.has
SetHas(set, x) == x \in Range(set)

\* Variant: an indexOf that finds no element.
indexOfNotFound(arr, x) == -1

\* Array.prototype.indexOf: 0-based position of the first occurrence, or -1.
indexOf(arr, x) ==
  IF x \in Range(arr)
    THEN (CHOOSE k \in 1..Len(arr) :
            arr[k] = x /\ \A j \in 1..(k - 1) : arr[j] # x) - 1
    ELSE -1

\* Variant: splice taking its start for a 1-based position.
spliceOneBased(arr, start, deleteCount) ==
  LET len == Len(arr)
      st == start - 1
      from == IF st < 0
                THEN (IF len + st < 0 THEN 0 ELSE len + st)
                ELSE (IF st > len THEN len ELSE st)
      cnt == IF deleteCount < 0 THEN 0
             ELSE IF deleteCount > len - from THEN len - from
             ELSE deleteCount
  IN  SubSeq(arr, 1, from) \o SubSeq(arr, from + cnt + 1, len)

\* Array.prototype.splice(start, deleteCount), 0-based start; a negative start
\* counts from the end of the array.
splice(arr, start, deleteCount) ==
  LET len == Len(arr)
      from == IF start < 0
                THEN (IF len + start < 0 THEN 0 ELSE len + start)
                ELSE (IF start > len THEN len ELSE start)
      cnt == IF deleteCount < 0 THEN 0
             ELSE IF deleteCount > len - from THEN len - from
             ELSE deleteCount
  IN  SubSeq(arr, 1, from) \o SubSeq(arr, from + cnt + 1, len)

\* Map.prototype.delete
MapDelete(map, key) == [k \in DOMAIN map \ {key} |-> map[k]]

\* Map.prototype.clear on one scope of one manifest.
ClearScope(m, w, scope) == [m EXCEPT ![w][scope] = {}]

\* The orders in which the entries of a scope (a Map) can be iterated.
Orderings(S) ==
  {o \in [1..Cardinality(S) -> S] : \A x \in S : \E k \in DOMAIN o : o[k] = x}

\* ------------------------------------------------------ schema and the seed
\* Variant: a schema that accepts names together with --all.
SchemaValidNoLimit(a, ns) == TRUE

\* static schema: with `all`, the array of workspaces has at most 0 elements.
SchemaValid(a, ns) == a => Len(ns) <= 0

\* The command line: the flags, the names, and the workspace the current
\* directory lies in (null outside every workspace).
NameLists == SeqsUpTo(PackageNames, MaxNames)
ActiveWorkspaces == Workspaces \cup {null}

\* The schema rejects names given together with --all, before execute() runs.
SchemaRejects ==
  /\ pc = "start"
  /\ \E a \in BOOLEAN, p \in BOOLEAN, ns \in NameLists :
       /\ ~SchemaValid(a, ns)
       /\ names' = ns
       /\ all' = a
       /\ production' = p
  /\ pc' = "error"
  /\ failure' = "ConfigurationError"
  /\ UNCHANGED <<scanned, loaded, projectVars, seed, requiredWorkspaces, cursor,
                 evictions, installVars, exitCode>>

\* The closure loop starts on the required set just constructed.
StartClosure(ns, a, p, set) ==
  /\ names' = ns
  /\ all' = a
  /\ production' = p
  /\ seed' = set
  /\ requiredWorkspaces' = set
  /\ cursor' = 1
  /\ pc' = "closure"
  /\ UNCHANGED <<scanned, loaded, projectVars, evictions, installVars, failure,
                 exitCode>>

\* An error thrown while the required set is constructed.
Throw(ns, a, p, error) ==
  /\ names' = ns
  /\ all' = a
  /\ production' = p
  /\ pc' = "error"
  /\ failure' = error
  /\ UNCHANGED <<scanned, loaded, projectVars, seed, requiredWorkspaces, cursor,
                 evictions, installVars, exitCode>>

\* Variant: with --all the required set starts from the root alone.
SelectAllFromRoot ==
  /\ pc = "start"
  /\ \E p \in BOOLEAN, ns \in NameLists :
       /\ SchemaValid(TRUE, ns)
       /\ StartClosure(ns, TRUE, p, SetOf(<<topLevelWorkspace>>))

\* if (this.all) requiredWorkspaces = new Set(project.workspaces)
SelectAll ==
  /\ pc = "start"
  /\ \E p \in BOOLEAN, ns \in NameLists :
       /\ SchemaValid(TRUE, ns)
       /\ StartClosure(ns, TRUE, p, SetOf(workspaces))

\* else if (this.workspaces.length === 0), inside a workspace
SelectActive ==
  /\ pc = "start"
  /\ \E p \in BOOLEAN, ns \in NameLists, workspace \in ActiveWorkspaces :
       /\ Len(ns) = 0
       /\ workspace # null
       /\ StartClosure(ns, FALSE, p, SetOf(<<workspace>>))

\* else if (this.workspaces.length === 0), outside every workspace
ThrowWorkspaceRequired ==
  /\ pc = "start"
  /\ \E p \in BOOLEAN, ns \in NameLists, workspace \in ActiveWorkspaces :
       /\ Len(ns) = 0
       /\ workspace = null
       /\ Throw(ns, FALSE, p, "WorkspaceRequiredError")

\* else: every name resolves through project.getWorkspaceByIdent
SelectNamed ==
  /\ pc = "start"
  /\ \E p \in BOOLEAN, ns \in NameLists :
       /\ Len(ns) # 0
       /\ \A k \in 1..Len(ns) :
            tryWorkspaceByIdent(workspacesByIdent, parseIdent(ns[k])) # null
       /\ StartClosure(ns, FALSE, p,
            SetOf([k \in 1..Len(ns) |->
                     tryWorkspaceByIdent(workspacesByIdent,
                                         parseIdent(ns[k]))]))

\* else: project.getWorkspaceByIdent throws on a name that is no workspace
ThrowUnknownWorkspace ==
  /\ pc = "start"
  /\ \E p \in BOOLEAN, ns \in NameLists :
       /\ Len(ns) # 0
       /\ \E k \in 1..Len(ns) :
            tryWorkspaceByIdent(workspacesByIdent, parseIdent(ns[k])) = null
       /\ Throw(ns, FALSE, p, "UnknownWorkspace")

\* ------------------------------------------------------------- closure loop
\* Variant: the loop walks every dependency scope, peerDependencies too.
scannedScopesWithPeers ==
  <<"dependencies", "devDependencies", "peerDependencies">>

\* Variant: in production mode the loop leaves devDependencies out.
scannedScopesByFlag ==
  IF production THEN <<"dependencies">> ELSE hardDependencies

\* The scopes the loop walks for each required workspace.
scannedScopes == hardDependencies

\* Variant: the scan of a scope stops at the first descriptor that resolves to
\* no workspace (break instead of continue).
RECURSIVE ScanDescriptorsBreak(_, _, _)
ScanDescriptorsBreak(set, byIdent, descriptors) ==
  IF descriptors = <<>> THEN set
  ELSE LET matchingWorkspace ==
             tryWorkspaceByDescriptor(byIdent, descriptors[1])
           rest == SubSeq(descriptors, 2, Len(descriptors))
       IN  IF matchingWorkspace = null
             THEN set
             ELSE ScanDescriptorsBreak(SetAdd(set, matchingWorkspace),
                                       byIdent, rest)

\* Variant: the scan of a scope stops after the first descriptor that
\* resolves to a workspace.
RECURSIVE ScanDescriptorsFirstMatch(_, _, _)
ScanDescriptorsFirstMatch(set, byIdent, descriptors) ==
  IF descriptors = <<>> THEN set
  ELSE LET matchingWorkspace ==
             tryWorkspaceByDescriptor(byIdent, descriptors[1])
           rest == SubSeq(descriptors, 2, Len(descriptors))
       IN  IF matchingWorkspace = null
             THEN ScanDescriptorsFirstMatch(set, byIdent, rest)
             ELSE SetAdd(set, matchingWorkspace)

\* The innermost loop: every descriptor of one scope, in iteration order.
RECURSIVE ScanDescriptors(_, _, _)
ScanDescriptors(set, byIdent, descriptors) ==
  IF descriptors = <<>> THEN set
  ELSE LET matchingWorkspace ==
             tryWorkspaceByDescriptor(byIdent, descriptors[1])
           rest == SubSeq(descriptors, 2, Len(descriptors))
       IN  IF matchingWorkspace = null
             THEN ScanDescriptors(set, byIdent, rest)
             ELSE ScanDescriptors(SetAdd(set, matchingWorkspace), byIdent, rest)

\* The middle loop: the scanned scopes of one workspace, in order; order[s] is
\* the iteration order of scope s.
RECURSIVE ScanScopes(_, _, _, _)
ScanScopes(set, byIdent, scopes, order) ==
  IF scopes = <<>> THEN set
  ELSE ScanScopes(ScanDescriptors(set, byIdent, order[scopes[1]]), byIdent,
                  SubSeq(scopes, 2, Len(scopes)), order)

\* Variant: the iteration also deletes from the scanned scopes the descriptors
\* that resolve to no workspace.
ClosureStepDropsExternal ==
  /\ pc = "closure"
  /\ cursor <= Len(requiredWorkspaces)
  /\ LET workspace == requiredWorkspaces[cursor]
     IN  /\ \E order \in [Range(scannedScopes) ->
                            UNION {Orderings(manifest[workspace][s]) :
                                     s \in Range(scannedScopes)}] :
              /\ \A s \in Range(scannedScopes) :
                   order[s] \in Orderings(manifest[workspace][s])
              /\ requiredWorkspaces' =
                   ScanScopes(requiredWorkspaces, workspacesByIdent,
                              scannedScopes, order)
         /\ manifest' =
              [manifest EXCEPT ![workspace] =
                 [s \in Scopes |->
                    IF s \in Range(scannedScopes)
                      THEN {d \in manifest[workspace][s] :
                              tryWorkspaceByDescriptor(workspacesByIdent, d)
                                # null}
                      ELSE manifest[workspace][s]]]
  /\ scanned' = Append(scanned, requiredWorkspaces[cursor])
  /\ cursor' = cursor + 1
  /\ UNCHANGED <<pc, names, all, production, loaded, workspaces,
                 workspacesByCwd, workspacesByIdent, seed, evictions,
                 installVars, failure, exitCode>>

\* One iteration of `for (const workspace of requiredWorkspaces)`.
ClosureStep ==
  /\ pc = "closure"
  /\ cursor <= Len(requiredWorkspaces)
  /\ LET workspace == requiredWorkspaces[cursor]
     IN  \E order \in [Range(scannedScopes) ->
                         UNION {Orderings(manifest[workspace][s]) :
                                  s \in Range(scannedScopes)}] :
           /\ \A s \in Range(scannedScopes) :
                order[s] \in Orderings(manifest[workspace][s])
           /\ requiredWorkspaces' =
                ScanScopes(requiredWorkspaces, workspacesByIdent,
                           scannedScopes, order)
  /\ scanned' = Append(scanned, requiredWorkspaces[cursor])
  /\ cursor' = cursor + 1
  /\ UNCHANGED <<pc, names, all, production, loaded, projectVars, seed,
                 evictions, installVars, failure, exitCode>>

\* Variant: the loop walks a copy of the Set taken before the loop, so that
\* the workspaces added meanwhile are never visited.
ClosureDoneOnCopy ==
  /\ pc = "closure"
  /\ cursor > Len(seed)
  /\ pc' = "prune"
  /\ cursor' = 1
  /\ UNCHANGED <<scanned, names, all, production, loaded, projectVars, seed,
                 requiredWorkspaces, evictions, installVars, failure,
                 exitCode>>

\* The iterator of the Set is exhausted.
ClosureDone ==
  /\ pc = "closure"
  /\ cursor > Len(requiredWorkspaces)
  /\ pc' = "prune"
  /\ cursor' = 1
  /\ UNCHANGED <<scanned, names, all, production, loaded, projectVars, seed,
                 requiredWorkspaces, evictions, installVars, failure,
                 exitCode>>

\* ------------------------------------------------------------- pruning pass
\* The three scopes of a workspace cleared.
ClearAll(m, workspace) ==
  ClearScope(
    ClearScope(
      ClearScope(m, workspace, "dependencies"),
      workspace, "devDependencies"),
    workspace, "peerDependencies")

\* Variant: devDependencies of a required workspace cleared whatever the
\* production flag.
PruneWorkspaceIgnoresFlag(st, workspace, required, prod) ==
  IF SetHas(required, workspace)
    THEN [st EXCEPT !.manifest = ClearScope(@, workspace, "devDependencies")]
    ELSE [manifest |-> ClearAll(st.manifest, workspace),
          evictions |-> IF topLevelWorkspace # workspace
                          THEN Append(st.evictions, workspace)
                          ELSE st.evictions]

\* Variant: peerDependencies of a workspace outside the required set kept.
PruneWorkspaceKeepsPeers(st, workspace, required, prod) ==
  IF SetHas(required, workspace)
    THEN IF prod
           THEN [st EXCEPT !.manifest =
                   ClearScope(@, workspace, "devDependencies")]
           ELSE st
    ELSE [manifest |->
            ClearScope(ClearScope(st.manifest, workspace, "dependencies"),
                       workspace, "devDependencies"),
          evictions |-> IF topLevelWorkspace # workspace
                          THEN Append(st.evictions, workspace)
                          ELSE st.evictions]

\* Variant: the root evicted like any other workspace outside the required
\* set.
PruneWorkspaceEvictsRoot(st, workspace, required, prod) ==
  IF SetHas(required, workspace)
    THEN IF prod
           THEN [st EXCEPT !.manifest =
                   ClearScope(@, workspace, "devDependencies")]
           ELSE st
    ELSE [manifest |-> ClearAll(st.manifest, workspace),
          evictions |-> Append(st.evictions, workspace)]

\* Variant: the root is skipped by the pruning loop.
PruneWorkspaceSkipsRoot(st, workspace, required, prod) ==
  IF SetHas(required, workspace)
    THEN IF prod
           THEN [st EXCEPT !.manifest =
                   ClearScope(@, workspace, "devDependencies")]
           ELSE st
    ELSE IF topLevelWorkspace = workspace
           THEN st
           ELSE [manifest |-> ClearAll(st.manifest, workspace),
                 evictions |-> Append(st.evictions, workspace)]

\* The body of `for (const workspace of project.workspaces)`: st holds the
\* manifests and the evictions array.
PruneWorkspace(st, workspace, required, prod) ==
  IF SetHas(required, workspace)
    THEN IF prod
           THEN [st EXCEPT !.manifest =
                   ClearScope(@, workspace, "devDependencies")]
           ELSE st
    ELSE [manifest |-> ClearAll(st.manifest, workspace),
          evictions |-> IF topLevelWorkspace # workspace
                          THEN Append(st.evictions, workspace)
                          ELSE st.evictions]

\* Variant: a workspace outside the required set is removed from the list and
\* the indexes inside the pruning loop, while the list is being walked.
PruneStepRemovesAtOnce ==
  /\ pc = "prune"
  /\ cursor <= Len(workspaces)
  /\ LET workspace == workspaces[cursor]
         st == PruneWorkspace([manifest |-> manifest, evictions |-> evictions],
                              workspace, requiredWorkspaces, production)
         evicted == st.evictions # evictions
     IN  /\ manifest' = st.manifest
         /\ evictions' = st.evictions
         /\ workspaces' =
              IF evicted
                THEN splice(workspaces, indexOf(workspaces, workspace), 1)
                ELSE workspaces
         /\ workspacesByCwd' =
              IF evicted THEN MapDelete(workspacesByCwd, cwd(workspace))
                         ELSE workspacesByCwd
         /\ workspacesByIdent' =
              IF evicted
                THEN MapDelete(workspacesByIdent, identHash(workspace))
                ELSE workspacesByIdent
  /\ cursor' = cursor + 1
  /\ UNCHANGED <<scanned, pc, names, all, production, loaded, seed,
                 requiredWorkspaces, installVars, failure, exitCode>>

\* One iteration of the pruning loop.
PruneStep ==
  /\ pc = "prune"
  /\ cursor <= Len(workspaces)
  /\ LET st == PruneWorkspace([manifest |-> manifest, evictions |-> evictions],
                              workspaces[cursor], requiredWorkspaces,
                              production)
     IN  /\ manifest' = st.manifest
         /\ evictions' = st.evictions
  /\ cursor' = cursor + 1
  /\ UNCHANGED <<scanned, pc, names, all, production, loaded, workspaces,
                 workspacesByCwd, workspacesByIdent, seed, requiredWorkspaces, installVars,
                 failure, exitCode>>

\* The pruning loop has visited every element of project.workspaces.
PruneDone ==
  /\ pc = "prune"
  /\ cursor > Len(workspaces)
  /\ pc' = "remove"
  /\ cursor' = 1
  /\ UNCHANGED <<scanned, names, all, production, loaded, projectVars, seed,
                 requiredWorkspaces, evictions, installVars, failure,
                 exitCode>>

\* ------------------------------------------------------------- removal pass
\* Variant: the evicted workspace left in workspacesByCwd.
RemoveWorkspaceKeepsCwd(proj, evictedWorkspace) ==
  [workspacesByCwd |-> proj.workspacesByCwd,
   workspacesByIdent |->
     MapDelete(proj.workspacesByIdent, identHash(evictedWorkspace)),
   workspaces |->
     splice(proj.workspaces, indexOf(proj.workspaces, evictedWorkspace), 1)]

\* The body of `for (const evictedWorkspace of evictions)`: proj holds the
\* ordered list and the two indexes.
RemoveWorkspace(proj, evictedWorkspace) ==
  [workspacesByCwd |-> MapDelete(proj.workspacesByCwd, cwd(evictedWorkspace)),
   workspacesByIdent |->
     MapDelete(proj.workspacesByIdent, identHash(evictedWorkspace)),
   workspaces |->
     splice(proj.workspaces, indexOf(proj.workspaces, evictedWorkspace), 1)]

\* One iteration of the removal loop.
RemoveStep ==
  /\ pc = "remove"
  /\ cursor <= Len(evictions)
  /\ LET proj == RemoveWorkspace([workspaces |-> workspaces,
                                  workspacesByCwd |-> workspacesByCwd,
                                  workspacesByIdent |-> workspacesByIdent],
                                 evictions[cursor])
     IN  /\ workspaces' = proj.workspaces
         /\ workspacesByCwd' = proj.workspacesByCwd
         /\ workspacesByIdent' = proj.workspacesByIdent
  /\ cursor' = cursor + 1
  /\ UNCHANGED <<scanned, pc, names, all, production, loaded, manifest, seed,
                 requiredWorkspaces, evictions, installVars, failure,
                 exitCode>>

\* The removal loop has visited every eviction.
RemoveDone ==
  /\ pc = "remove"
  /\ cursor > Len(evictions)
  /\ pc' = "install"
  /\ UNCHANGED <<scanned, names, all, production, loaded, projectVars, seed,
                 requiredWorkspaces, cursor, evictions, installVars, failure,
                 exitCode>>

\* ------------------------------------------------- the eviction as a whole
\* The whole pruning loop over an ordered list.
RECURSIVE PrunePass(_, _, _, _)
PrunePass(st, list, required, prod) ==
  IF list = <<>> THEN st
  ELSE PrunePass(PruneWorkspace(st, list[1], required, prod),
                 SubSeq(list, 2, Len(list)), required, prod)

\* The whole removal loop over the evictions array.
RECURSIVE RemovalPass(_, _)
RemovalPass(proj, evicted) ==
  IF evicted = <<>> THEN proj
  ELSE RemovalPass(RemoveWorkspace(proj, evicted[1]),
                   SubSeq(evicted, 2, Len(evicted)))

\* The pruning pass followed by the removal pass, applied to a project g
\* (manifests, ordered list, both indexes).
Evict(g, required, prod) ==
  LET st == PrunePass([manifest |-> g.manifest, evictions |-> <<>>],
                      g.workspaces, required, prod)
      proj == RemovalPass([workspaces |-> g.workspaces,
                           workspacesByCwd |-> g.workspacesByCwd,
                           workspacesByIdent |-> g.workspacesByIdent],
                          st.evictions)
  IN  [manifest |-> st.manifest,
       workspaces |-> proj.workspaces,
       workspacesByCwd |-> proj.workspacesByCwd,
       workspacesByIdent |-> proj.workspacesByIdent]

\* ------------------------------------------------------------------ install
\* The persistProject option execute() passes to project.install.
persistProject == FALSE

\* The errors project.install can fail with: one value stands for them all.
InstallErrors == {"InstallFailed"}

\* project.install({cache, report, persistProject}): writes the project state
\* only when asked to, and either completes or fails with an error.
Install(result, error) ==
  /\ pc = "install"
  /\ installCalls' = Append(installCalls, persistProject)
  /\ persistProjectCalls' =
       persistProjectCalls + (IF persistProject THEN 1 ELSE 0)
  /\ installResult' = result
  /\ installError' = error
  /\ UNCHANGED <<scanned, names, all, production, loaded, projectVars, seed,
                 requiredWorkspaces, cursor, evictions, persistInstallCalls,
                 exitCode>>

\* await project.install(...) completes: the callback goes on.
InstallSucceeds ==
  /\ Install("ok", "none")
  /\ pc' = "persist"
  /\ UNCHANGED failure

\* Variant: the failure of install is swallowed and the callback goes on to
\* persist the install state.
InstallFailsAndGoesOn ==
  \E error \in InstallErrors :
    /\ Install("failed", error)
    /\ pc' = "persist"
    /\ failure' = error

\* Variant: the callback catches the error of install and completes.
InstallFailsSwallowed ==
  \E error \in InstallErrors :
    /\ Install("failed", error)
    /\ pc' = "report"
    /\ UNCHANGED failure

\* await project.install(...) fails: the rest of the callback is skipped and
\* the callback rejects with the error of install.
InstallFails ==
  \E error \in InstallErrors :
    /\ Install("failed", error)
    /\ pc' = "report"
    /\ failure' = error

\* await project.persistInstallStateFile()
PersistInstallState ==
  /\ pc = "persist"
  /\ persistInstallCalls' = persistInstallCalls + 1
  /\ pc' = "report"
  /\ UNCHANGED <<scanned, names, all, production, loaded, projectVars, seed,
                 requiredWorkspaces, cursor, evictions, installCalls,
                 installResult, installError, persistProjectCalls, failure,
                 exitCode>>

\* StreamReport.start whose callback rejected: the error goes on to the caller
\* of execute(), and the return statement is not reached.
StartRejects ==
  /\ pc = "report"
  /\ failure # "none"
  /\ pc' = "threw"
  /\ UNCHANGED <<scanned, names, all, production, loaded, projectVars, seed,
                 requiredWorkspaces, cursor, evictions, installVars, failure,
                 exitCode>>

\* StreamReport.start resolved: return report.exitCode()
Return ==
  /\ pc = "report"
  /\ failure = "none"
  /\ exitCode' = IF failure = "none" THEN 0 ELSE 1
  /\ pc' = "done"
  /\ UNCHANGED <<scanned, names, all, production, loaded, projectVars, seed,
                 requiredWorkspaces, cursor, evictions, installVars, failure>>

Next ==
  \/ SchemaRejects
  \/ SelectAll
  \/ SelectActive
  \/ ThrowWorkspaceRequired
  \/ SelectNamed
  \/ ThrowUnknownWorkspace
  \/ ClosureStep
  \/ ClosureDone
  \/ PruneStep
  \/ PruneDone
  \/ RemoveStep
  \/ RemoveDone
  \/ InstallSucceeds
  \/ InstallFails
  \/ PersistInstallState
  \/ StartRejects
  \/ Return

Spec == Init /\ [][Next]_vars

\* execute() up to the end of the closure loop: validation, the choice of the
\* seeds and the loop itself.
ClosureNext ==
  \/ SchemaRejects
  \/ SelectAll
  \/ SelectActive
  \/ ThrowWorkspaceRequired
  \/ SelectNamed
  \/ ThrowUnknownWorkspace
  \/ ClosureStep
  \/ ClosureDone

\* execute() is sequential code that runs on until it returns or throws.
ClosureSpec == Init /\ [][ClosureNext]_vars /\ WF_vars(ClosureNext)

\* ------------------------------------------------------------------- types
TypeOK ==
  /\ pc \in {"start", "error", "closure", "prune", "remove", "install",
             "persist", "report", "threw", "done"}
  /\ all \in BOOLEAN
  /\ production \in BOOLEAN
  /\ Range(workspaces) \subseteq Workspaces
  /\ Range(requiredWorkspaces) \subseteq Workspaces
  /\ Range(evictions) \subseteq Workspaces
  /\ persistInstallCalls \in Nat

\* ------------------------------------------------- vocabulary of the claims
Required == Range(requiredWorkspaces)
Seeds == Range(seed)

\* The closure loop has finished.
AfterClosure ==
  pc \in {"prune", "remove", "install", "persist", "report", "threw", "done"}

\* The pruning pass has finished.
AfterPruning ==
  pc \in {"remove", "install", "persist", "report", "threw", "done"}

\* Both passes of the eviction have finished.
AfterEviction == pc \in {"install", "persist", "report", "threw", "done"}

\* The indexes of the project as loaded.
LoadedByCwd == [c \in {cwd(w) : w \in Workspaces} |-> c[2]]
LoadedByIdent == [h \in {identHash(w) : w \in Workspaces} |-> h[2]]

\* The workspaces the descriptors of the given scopes of w resolve to in the
\* loaded project.
EdgesOf(w, scopes) ==
  {v \in Workspaces : \E s \in scopes : identHash(v) \in loaded[w][s]}

\* The workspaces reachable from S along edges of the given scopes, S included.
RECURSIVE Reachable(_, _)
Reachable(S, scopes) ==
  LET next == S \cup UNION {EdgesOf(w, scopes) : w \in S}
  IN  IF next = S THEN S ELSE Reachable(next, scopes)

HardScopes == {"dependencies", "devDependencies"}

\* C1: after the closure loop the required set contains every seed and, for
\* every required workspace, every in-project workspace a descriptor of its
\* dependencies or devDependencies resolves to.
C1_ClosedUnderHardEdges ==
  AfterClosure =>
    /\ Seeds # {}
    /\ Seeds \subseteq Required
    /\ \A w \in Required : EdgesOf(w, HardScopes) \subseteq Required

\* A run whose closure went two edges beyond the seed.
C1_Witness ==
  /\ pc = "prune"
  /\ Cardinality(Seeds) = 1
  /\ Cardinality(Required) = 3
  /\ \E w \in Seeds : Cardinality(EdgesOf(w, HardScopes) \ Seeds) = 1

\* C2: after the closure loop the required set is exactly the set of the
\* workspaces reachable from the seed along dependencies/devDependencies
\* edges, the seed included: nothing else is required.
C2_RequiredIsReachability ==
  AfterClosure => Required = Reachable(Seeds, HardScopes)

\* A run in which the closure added a workspace and left another one out.
C2_Witness ==
  /\ pc = "prune"
  /\ Required # Seeds
  /\ Required # Workspaces
  /\ \E w \in Workspaces \ Required : \E v \in Workspaces : w \in EdgesOf(v, Scopes)

\* C3: a workspace that is no seed and that the seed reaches only along paths
\* with a peerDependencies edge is not required after the closure loop.
C3_PeerEdgesDoNotExpand ==
  AfterClosure =>
    LET byAny == Reachable(Seeds, Scopes)
        byHard == Reachable(Seeds, HardScopes)
    IN  \A v \in Workspaces :
          (v \notin Seeds /\ v \in byAny /\ v \notin byHard) =>
            v \notin Required

\* A run with a required workspace whose peer dependency is a workspace that
\* no hard path reaches.
C3_Witness ==
  /\ pc = "prune"
  /\ \E w \in Required :
       \E v \in EdgesOf(w, {"peerDependencies"}) :
         v \notin Seeds /\ v \notin Reachable(Seeds, HardScopes)

\* A workspace is in the ordered list and under its keys in both indexes.
InList(w) == w \in Range(workspaces)
InByCwd(w) ==
  cwd(w) \in DOMAIN workspacesByCwd /\ workspacesByCwd[cwd(w)] = w
InByIdent(w) ==
  identHash(w) \in DOMAIN workspacesByIdent
    /\ workspacesByIdent[identHash(w)] = w

\* C4: after eviction every required workspace has its dependencies and
\* peerDependencies as loaded, and its devDependencies as loaded unless
\* production mode is on, in which case they are empty.
C4_RequiredScopesKept ==
  AfterEviction =>
    \A w \in Required :
      /\ manifest[w]["dependencies"] = loaded[w]["dependencies"]
      /\ manifest[w]["peerDependencies"] = loaded[w]["peerDependencies"]
      /\ manifest[w]["devDependencies"] =
           IF production THEN {} ELSE loaded[w]["devDependencies"]

\* The end of the eviction of a production run, with a required workspace
\* that was loaded with devDependencies and with another scope filled.
C4_Witness ==
  /\ AfterEviction
  /\ production
  /\ \E w \in Required :
       /\ loaded[w]["devDependencies"] # {}
       /\ manifest[w]["devDependencies"] = {}
       /\ manifest[w]["dependencies"] \cup manifest[w]["peerDependencies"]
            # {}

\* C5: after eviction every workspace that is neither required nor the root has
\* its three scopes empty and is in none of project.workspaces,
\* workspacesByCwd and workspacesByIdent, whatever the production flag.
C5_EvictedAreStripped ==
  AfterEviction =>
    \A w \in Workspaces :
      (w \notin Required /\ w # topLevelWorkspace) =>
        /\ \A s \in Scopes : manifest[w][s] = {}
        /\ ~InList(w)
        /\ cwd(w) \notin DOMAIN workspacesByCwd
        /\ identHash(w) \notin DOMAIN workspacesByIdent
        /\ \A c \in DOMAIN workspacesByCwd : workspacesByCwd[c] # w
        /\ \A h \in DOMAIN workspacesByIdent : workspacesByIdent[h] # w

\* An evicted workspace that was loaded with peerDependencies.
C5_Witness ==
  /\ AfterEviction
  /\ \E w \in Workspaces :
       /\ w \notin Required
       /\ w # topLevelWorkspace
       /\ loaded[w]["peerDependencies"] # {}
       /\ loaded[w]["dependencies"] # {}

\* C6: in every state the root is in the ordered list and in both indexes and
\* is not on the eviction list; once the pruning pass is over, a root outside
\* the required set has its three scopes empty.
C6_RootRetained ==
  /\ InList(topLevelWorkspace)
  /\ InByCwd(topLevelWorkspace)
  /\ InByIdent(topLevelWorkspace)
  /\ topLevelWorkspace \notin Range(evictions)
  /\ (AfterPruning /\ topLevelWorkspace \notin Required) =>
       \A s \in Scopes : manifest[topLevelWorkspace][s] = {}

\* The end of an eviction that removed a workspace and pruned a root that is
\* not required and was loaded with dependencies.
C6_Witness ==
  /\ pc = "install"
  /\ topLevelWorkspace \notin Required
  /\ evictions # <<>>
  /\ loaded[topLevelWorkspace]["dependencies"] # {}
  /\ InList(topLevelWorkspace)

\* C7: the project state is never persisted (every install call passes
\* persistProject false); the install state is persisted at most once, never
\* before install has succeeded, never after it failed, and exactly once by
\* the time a run with a successful install returns.
C7_PersistenceSplit ==
  /\ persistProjectCalls = 0
  /\ \A k \in 1..Len(installCalls) : installCalls[k] = FALSE
  /\ Len(installCalls) <= 1
  /\ persistInstallCalls <= 1
  /\ persistInstallCalls > 0 => installResult = "ok"
  /\ installResult = "failed" => persistInstallCalls = 0
  /\ (pc = "done" /\ installResult = "ok") => persistInstallCalls = 1
  /\ pc = "done" => Len(installCalls) = 1

\* A finished run whose install succeeded and whose install state was saved.
C7_Witness ==
  /\ pc = "done"
  /\ installResult = "ok"
  /\ persistInstallCalls = 1
  /\ installCalls = <<FALSE>>

\* The three conditions that make the operation fail before the closure.
NamesWithAll == all /\ Len(names) > 0
UnknownName ==
  \E k \in 1..Len(names) :
    tryWorkspaceByIdent(LoadedByIdent, parseIdent(names[k])) = null

\* C8: a run given names together with --all, or a name that is no workspace,
\* never gets past the start; a run that ended in an error has every manifest,
\* the ordered list and both indexes as loaded, an empty required set and
\* eviction list, and has called neither install nor the install-state
\* persistence.
C8_ErrorsLeaveProjectAsLoaded ==
  /\ (pc \notin {"start", "error"}) =>
       /\ ~NamesWithAll
       /\ ~UnknownName
       /\ requiredWorkspaces # <<>>
  /\ ((NamesWithAll \/ UnknownName) /\ pc # "start") =>
       /\ pc = "error"
       /\ failure \in {"ConfigurationError", "UnknownWorkspace"}
  /\ pc = "error" =>
       /\ failure \in {"ConfigurationError", "UnknownWorkspace",
                       "WorkspaceRequiredError"}
       /\ manifest = loaded
       /\ workspaces = LoadedWorkspaces
       /\ workspacesByCwd = LoadedByCwd
       /\ workspacesByIdent = LoadedByIdent
       /\ requiredWorkspaces = <<>>
       /\ evictions = <<>>
       /\ installCalls = <<>>
       /\ installResult = "none"
       /\ persistInstallCalls = 0
       /\ persistProjectCalls = 0

\* A run of a project with manifest entries, ended by the schema.
C8_Witness ==
  /\ pc = "error"
  /\ failure = "ConfigurationError"
  /\ NamesWithAll
  /\ \E w \in Workspaces : loaded[w]["dependencies"] # {}

\* C9: once the removal pass is over, a workspace is in project.workspaces
\* exactly when workspacesByCwd holds it under its cwd and exactly when
\* workspacesByIdent holds it under its ident hash; the list holds no
\* workspace twice and the indexes hold nothing else.
C9_ListAndIndexesAgree ==
  AfterEviction =>
    /\ \A w \in Workspaces :
         /\ InList(w) <=> InByCwd(w)
         /\ InList(w) <=> InByIdent(w)
    /\ DOMAIN workspacesByCwd \subseteq {cwd(w) : w \in Workspaces}
    /\ DOMAIN workspacesByIdent \subseteq {identHash(w) : w \in Workspaces}
    /\ Cardinality(Range(workspaces)) = Len(workspaces)

\* The end of a removal pass that removed a workspace from the middle of the
\* list.
C9_Witness ==
  /\ pc = "install"
  /\ workspaces = <<LoadedWorkspaces[1], LoadedWorkspaces[3]>>
  /\ evictions = <<LoadedWorkspaces[2]>>

\* The project (manifests, list, indexes) as it is, and as it was loaded.
CurrentProject ==
  [manifest |-> manifest,
   workspaces |-> workspaces,
   workspacesByCwd |-> workspacesByCwd,
   workspacesByIdent |-> workspacesByIdent]

LoadedProject ==
  [manifest |-> loaded,
   workspaces |-> LoadedWorkspaces,
   workspacesByCwd |-> LoadedByCwd,
   workspacesByIdent |-> LoadedByIdent]

\* Every required set over the workspaces of the project.
RequiredSets == SeqsUpTo(Workspaces, Len(LoadedWorkspaces))

\* C10: the project left by the two passes of a run is the eviction of the
\* loaded project, and evicting it once more with the same required set and
\* flag changes nothing; the same holds of the loaded project for every
\* required set and both values of the flag.
C10_EvictionIdempotent ==
  /\ pc = "install" =>
       LET once == Evict(LoadedProject, requiredWorkspaces, production)
       IN  /\ CurrentProject = once
           /\ Evict(CurrentProject, requiredWorkspaces, production) =
                CurrentProject
  /\ pc = "start" =>
       \A required \in RequiredSets, prod \in BOOLEAN :
         LET once == Evict(LoadedProject, required, prod)
         IN  Evict(once, required, prod) = once

\* The end of an eviction that cleared manifest entries and removed a
\* workspace, in production mode.
C10_Witness ==
  /\ pc = "install"
  /\ production
  /\ evictions # <<>>
  /\ manifest # loaded
  /\ \E w \in Required : loaded[w]["devDependencies"] # {}

\* C11: in a run with --all (which has no names) the required set is the
\* whole workspace list, the root included, the eviction list stays empty and
\* the ordered list and both indexes stay as loaded; without --production no
\* manifest scope of any workspace changes.
C11_AllKeepsEverything ==
  (all /\ pc \notin {"start", "error"}) =>
    /\ names = <<>>
    /\ seed = LoadedWorkspaces
    /\ AfterClosure => requiredWorkspaces = LoadedWorkspaces
    /\ evictions = <<>>
    /\ workspaces = LoadedWorkspaces
    /\ workspacesByCwd = LoadedByCwd
    /\ workspacesByIdent = LoadedByIdent
    /\ ~production => manifest = loaded

\* The end of the eviction of a run with --all and without --production, on a
\* project whose workspaces do not all depend on each other.
C11_Witness ==
  /\ pc = "install"
  /\ all
  /\ ~production
  /\ Reachable({topLevelWorkspace}, HardScopes) # Workspaces
  /\ \E w \in Workspaces : loaded[w]["peerDependencies"] # {}

PrunedWhole ==
  PrunePass([manifest |-> loaded, evictions |-> <<>>], LoadedWorkspaces,
            requiredWorkspaces, production)

\* C13: the phases follow each other: while the closure loop runs no manifest
\* has changed; while the pruning loop runs the ordered list and both indexes
\* are as loaded and the required set is final; the removal loop starts from
\* the manifests and evictions of a pruning pass over the whole loaded list.
C13_PhasesInOrder ==
  /\ pc \in {"start", "error", "closure"} =>
       (manifest = loaded /\ evictions = <<>>)
  /\ pc \in {"start", "error", "closure", "prune"} =>
       /\ workspaces = LoadedWorkspaces
       /\ workspacesByCwd = LoadedByCwd
       /\ workspacesByIdent = LoadedByIdent
  /\ pc = "prune" =>
       /\ Required = Reachable(Seeds, HardScopes)
       /\ cursor \in 1..(Len(LoadedWorkspaces) + 1)
  /\ AfterPruning =>
       /\ manifest = PrunedWhole.manifest
       /\ evictions = PrunedWhole.evictions

\* The pruning loop has cleared a manifest and put a workspace on the eviction
\* list, has one workspace left to visit, and the list is still whole.
C13_Witness ==
  /\ pc = "prune"
  /\ cursor = Len(LoadedWorkspaces)
  /\ evictions # <<>>
  /\ manifest # loaded
  /\ workspaces = LoadedWorkspaces
  /\ Required # Seeds

\* C16: all along the closure loop and at its end every manifest scope of
\* every workspace, the ordered list, both indexes and the eviction list are
\* as loaded, and neither install nor a persistence has been called.
C16_ClosureTouchesOnlyRequired ==
  (pc = "closure" \/ (pc = "prune" /\ cursor = 1)) =>
    /\ \A w \in Workspaces : \A s \in Scopes : manifest[w][s] = loaded[w][s]
    /\ workspaces = LoadedWorkspaces
    /\ workspacesByCwd = LoadedByCwd
    /\ workspacesByIdent = LoadedByIdent
    /\ evictions = <<>>
    /\ installCalls = <<>>
    /\ persistInstallCalls = 0
    /\ persistProjectCalls = 0
    /\ failure = "none"

\* The end of a closure loop that visited a workspace with a descriptor that
\* resolves to no workspace next to one that added a workspace.
C16_Witness ==
  /\ pc = "prune"
  /\ cursor = 1
  /\ Required # Seeds
  /\ \E w \in Required : \E s \in HardScopes :
       /\ parseIdent(ExternalName) \in manifest[w][s]
       /\ \E v \in Required \ Seeds : identHash(v) \in manifest[w][s]

\* One fixed iteration order of the entries of a scope.
FixedOrder(S) == CHOOSE o \in Orderings(S) : TRUE

\* The closure loop run from position k of a Set on the loaded project, every
\* scope iterated in its fixed order.
RECURSIVE FixedWalk(_, _)
FixedWalk(set, k) ==
  IF k > Len(set) THEN set
  ELSE FixedWalk(
         ScanScopes(set, LoadedByIdent, scannedScopes,
                    [s \in Range(scannedScopes) |->
                       FixedOrder(loaded[set[k]][s])]),
         k + 1)

\* C14: whatever the order in which the seeds were inserted and in which the
\* entries of each scope were iterated, the required set left by the closure
\* loop is the one a walk in fixed order leaves, from the seeds in any order.
C14_RequiredIndependentOfOrder ==
  (pc = "prune" /\ cursor = 1) =>
    \A seeds \in Orderings(Seeds) : Range(FixedWalk(seeds, 1)) = Required

\* The end of a closure loop whose insertion order differs from the one of
\* the walk in fixed order.
C14_Witness ==
  /\ pc = "prune"
  /\ requiredWorkspaces # FixedWalk(seed, 1)
  /\ Len(seed) = 1
  /\ Len(requiredWorkspaces) = 3

IsPrefix(s, t) == Len(s) <= Len(t) /\ SubSeq(t, 1, Len(s)) = s

\* The Set holds no workspace twice, and the workspaces visited so far are its
\* first elements, each visited once; past the loop all have been visited.
ScannedOnce ==
  /\ Cardinality(Required) = Len(requiredWorkspaces)
  /\ IsPrefix(scanned, requiredWorkspaces)
  /\ pc = "closure" => Len(scanned) = cursor - 1
  /\ AfterClosure => scanned = requiredWorkspaces

\* C15: the closure loop ends on every project, cyclic or not: each iteration
\* only appends to the required set, no workspace is in it twice, each
\* required workspace is visited exactly once, and the loop is left.
C15_ClosureTerminates ==
  /\ []ScannedOnce
  /\ [][IsPrefix(requiredWorkspaces, requiredWorkspaces')]_vars
  /\ (pc = "closure" ~> pc = "prune")

\* The end of a closure loop over two workspaces that depend on each other,
\* one of them on itself too.
C15_Witness ==
  /\ pc = "prune"
  /\ Len(seed) = 1
  /\ \E w \in Required, v \in Required :
       /\ w # v
       /\ v \in EdgesOf(w, HardScopes)
       /\ w \in EdgesOf(v, HardScopes)

\* The elements of the sequence s that are in S, in the order of s.
Restrict(s, S) == SelectSeq(s, LAMBDA w : w \in S)

\* The evictions the removal loop has gone through so far.
Removed == Range(SubSeq(evictions, 1, cursor - 1))

\* C17: the eviction list is the loaded list without the required workspaces
\* and the root; each step of the removal loop takes exactly the eviction it
\* visits out of the list; after the eviction the list is the loaded list
\* restricted to the required set plus the root, in the loaded order.
C17_RemovesExactlyEvictions ==
  /\ AfterPruning =>
       evictions =
         Restrict(LoadedWorkspaces,
                  Workspaces \ (Required \cup {topLevelWorkspace}))
  /\ pc = "remove" =>
       workspaces = Restrict(LoadedWorkspaces, Workspaces \ Removed)
  /\ AfterEviction =>
       workspaces =
         Restrict(LoadedWorkspaces, Required \cup {topLevelWorkspace})

\* The end of a removal pass that took the middle workspace out of the list
\* of a project whose root is not required.
C17_Witness ==
  /\ pc = "persist"
  /\ Required = {LoadedWorkspaces[3]}
  /\ workspaces = <<topLevelWorkspace, LoadedWorkspaces[3]>>
  /\ evictions = <<LoadedWorkspaces[2]>>

\* The descriptor resolves in the pruned project to the workspace it resolved
\* to in the loaded one, and that workspace is in the list and both indexes.
StillResolves(descriptor) ==
  LET v == tryWorkspaceByDescriptor(LoadedByIdent, descriptor)
  IN  /\ tryWorkspaceByDescriptor(workspacesByIdent, descriptor) = v
      /\ InList(v)
      /\ InByCwd(v)
      /\ InByIdent(v)

\* C18: after the eviction every descriptor left in the dependencies or
\* devDependencies of a workspace of the list that resolved to a workspace of
\* the loaded project still resolves to it, and that workspace is in the list
\* and both indexes.
C18_NoDanglingHardEdge ==
  AfterEviction =>
    \A w \in Range(workspaces) : \A s \in HardScopes :
      \A descriptor \in manifest[w][s] :
        tryWorkspaceByDescriptor(LoadedByIdent, descriptor) # null =>
          StillResolves(descriptor)

\* The project handed to install when the root is not required and its loaded
\* manifest depended on a workspace that was evicted, next to a required
\* workspace that kept a descriptor resolving to a workspace.
C18_Witness ==
  /\ pc = "install"
  /\ topLevelWorkspace \notin Required
  /\ \E v \in Range(evictions) :
       identHash(v) \in loaded[topLevelWorkspace]["dependencies"]
  /\ \E w \in Required : \E s \in HardScopes : \E v \in Workspaces :
       identHash(v) \in manifest[w][s]

\* The evictions array a pruning loop over the whole loaded list leaves for the
\* required set of the run, with the given value of the production flag.
EvictionsWith(prod) ==
  PrunePass([manifest |-> loaded, evictions |-> <<>>], LoadedWorkspaces,
            requiredWorkspaces, prod).evictions

\* C19: the required set and the eviction list of a run are determined by the
\* loaded project and the seeds alone: the required set is what the seeds
\* reach along dependencies and devDependencies edges whatever the flag, and
\* the eviction list is the one the pruning loop leaves with the other value
\* of the flag.
C19_ProductionDoesNotSelect ==
  AfterPruning =>
    /\ Required = Reachable(Seeds, HardScopes)
    /\ evictions = EvictionsWith(~production)

\* A production run that required and kept a workspace the seeds reach only
\* along a devDependencies edge, cleared that edge, and evicted another one.
C19_Witness ==
  /\ pc = "install"
  /\ production
  /\ evictions # <<>>
  /\ \E w \in Required : \E v \in Required \ Seeds :
       /\ v \notin Reachable(Seeds, {"dependencies"})
       /\ identHash(v) \in loaded[w]["devDependencies"]
       /\ manifest[w]["devDependencies"] = {}
       /\ InList(v)


====
